---- MODULE Spec2Model ----
(***************************************************************************)
(* LimePPSDO GPSDO firmware: the VCTCXO tamer driver (vctcxo_tamer.c) and  *)
(* the polled control loop with its calibration state machine (main.c).    *)
(*                                                                         *)
(* One behaviour of Spec is one run of main(): Init is the state right     *)
(* before the while(1) loop (main.c:124), and one loop iteration is four   *)
(* steps: ReadEnable, the status poll (the producer or nothing), the edge  *)
(* handling, and the calibration FSM dispatch.                             *)
(***************************************************************************)
EXTENDS Integers, Sequences, FiniteSets, TLC

(***************************************************************************)
(* Bounds of the model.                                                    *)
(***************************************************************************)
\* Largest magnitude of a 1 s error count the hardware returns.
MaxErr == 2
\* Number of control-loop iterations explored.
MaxIter == 4
\* Largest magnitude of the error counts of the two calibration points when
\* the CoarseDone case is explored on its own.
MaxWide == 6

(***************************************************************************)
(* Program constants.                                                      *)
(***************************************************************************)
VCTCXO_DEFAULT_DAC_VALUE == 30714
trimdac_min == 0

\* Control register bits, status register bits and tune modes: declared in
\* vctcxo_tamer.h, which is not among the sources; values from the register
\* model of the specification (section 6).
VT_CTRL_RESET == 1
VT_CTRL_IRQ_EN == 2
VT_CTRL_IRQ_CLR == 4
VT_CTRL_TUNE_MODE == 192
VT_STAT_ERR_1S == 1
VT_STAT_ERR_10S == 2
VT_STAT_ERR_100S == 4
VCTCXO_TAMER_DISABLED == 0
VCTCXO_TAMER_1_PPS == 1
VCTCXO_TAMER_10_MHZ == 2

\* Range of int32_t / long on the RV32 target.
MaxInt32 == 2147483647
MinInt32 == (-2147483647) - 1

(***************************************************************************)
(* Integer helpers.                                                        *)
(***************************************************************************)
RECURSIVE Pow2(_)
Pow2(n) == IF n <= 0 THEN 1 ELSE 2 * Pow2(n - 1)

Abs(n) == IF n < 0 THEN -n ELSE n

\* C integer division by b > 0: truncation toward zero (\div rounds down).
TruncDiv(a, b) == IF a >= 0 \/ a % b = 0 THEN a \div b ELSE (a \div b) + 1

\* (uint8_t) v | mask, v & ~mask, v & mask for a mask of one bit.
BitSet(v, mask) == IF (v \div mask) % 2 = 1 THEN v ELSE v + mask
BitClear(v, mask) == IF (v \div mask) % 2 = 1 THEN v - mask ELSE v
BitTest(v, mask) == (v \div mask) % 2 = 1

\* Conversion of an integer to uint16_t.
U16(n) == n % 65536

(***************************************************************************)
(* IEEE-754 binary32 values, as [m, ex] standing for m * 2^ex with m odd   *)
(* (or m = 0, ex = 0) and |m| < 2^24.  Exponent range and subnormals play  *)
(* no part: every value the firmware forms lies between 2^-24 and 2^48.    *)
(***************************************************************************)
FZero == [m |-> 0, ex |-> 0]

RECURSIVE Canon(_, _)
Canon(m, ex) ==
    IF m = 0 THEN FZero
    ELSE IF m % 2 = 0 THEN Canon(m \div 2, ex + 1)
    ELSE [m |-> m, ex |-> ex]

\* Number of bits by which n >= 0 exceeds 24 bits.
RECURSIVE Excess(_)
Excess(n) == IF n < 16777216 THEN 0 ELSE 1 + Excess(n \div 2)

\* Round-to-nearest-even of (n + f) * 2^ex to 24 bits, n >= 0, where
\* 0 <= f < 1 and sticky says f > 0; neg gives the sign.
RoundSticky(neg, n, sticky, ex) ==
    LET t    == Excess(n)
        q    == n \div Pow2(t)
        r    == n % Pow2(t)
        half == Pow2(t - 1)
        up   == IF t = 0 THEN FALSE
                ELSE \/ r > half
                     \/ r = half /\ (sticky \/ q % 2 = 1)
        mag  == IF up THEN q + 1 ELSE q
    IN  Canon(IF neg THEN -mag ELSE mag, ex + t)

\* (float) n for an integer n.
IntToFloat(n) == RoundSticky(n < 0, Abs(n), FALSE, 0)

\* a * b in binary32 (mantissa product below 2^31 in this model).
FMul(a, b) == RoundSticky((a.m < 0) # (b.m < 0), Abs(a.m) * Abs(b.m), FALSE, a.ex + b.ex)

\* Long division of n by d, bit by bit, until the quotient has 26 bits or is
\* exact: <<quotient, remainder, bits produced>>.
RECURSIVE DivBits(_, _, _, _)
DivBits(q, r, d, k) ==
    IF r = 0 \/ q >= 33554432 THEN <<q, r, k>>
    ELSE IF 2 * r >= d THEN DivBits(2 * q + 1, 2 * r - d, d, k + 1)
    ELSE DivBits(2 * q, 2 * r, d, k + 1)

\* a / b in binary32, b # 0.
FDiv(a, b) ==
    LET n == Abs(a.m)
        d == Abs(b.m)
        s == DivBits(n \div d, n % d, d, 0)
    IN  RoundSticky((a.m < 0) # (b.m < 0), s[1], s[2] # 0, a.ex - b.ex - s[3])

\* Whether the value rounds to something a 32-bit long holds.
FitsLong(f) ==
    \/ f.ex <= 7
    \/ f.ex <= 30 /\ Abs(f.m) < Pow2(31 - f.ex)
    \/ f.m = -1 /\ f.ex = 31

\* lroundf(f): nearest integer, halves away from zero.  Outside the range of
\* long the result is unspecified (C11 7.12.9.7): ov stands for it.
LRoundf(f, ov) ==
    IF ~FitsLong(f) THEN ov
    ELSE IF f.ex >= 0 THEN f.m * Pow2(f.ex)
    ELSE IF -f.ex >= 25 THEN 0
    ELSE LET p   == Pow2(-f.ex)
             q   == Abs(f.m) \div p
             r   == Abs(f.m) % p
             mag == IF 2 * r >= p THEN q + 1 ELSE q
         IN  IF f.m < 0 THEN -mag ELSE mag

\* a - b in int32_t for 0 <= a; an overflowing difference wraps, as the sub
\* instruction of the target does.
Sub32(a, b) ==
    IF b < a - MaxInt32 THEN (a + MinInt32) - (b - MinInt32)
    ELSE a - b

(***************************************************************************)
(* State.                                                                  *)
(***************************************************************************)
VARIABLES
    CONFIG_DAC_MAX,          \* build-time DAC range (generated/soc.h)
    pc,                      \* position in the main loop
    iter,                    \* iterations started
    tune_state,              \* main.c:109
    trimdac_cal_line,        \* main.c:106
    vctcxo_tamer_pkt,        \* main.c:37, the one-slot mailbox
    vctcxo_tamer_en,         \* main.c:120
    vctcxo_tamer_en_old,     \* main.c:121
    vctcxo_tamer_ctrl_reg,   \* vctcxo_tamer.c:21, control register cache
    vctcxo_trim_dac_value,   \* vctcxo_tamer.c:28, trim DAC cache
    regs,                    \* the peripheral's written registers
    writes,                  \* register writes of the current iteration, in order
    hw_read,                 \* counts and status byte the producer last read
    tune_state_old,          \* tune_state when the current iteration began
    isr_ran,                 \* the producer ran in the current iteration
    edge,                    \* edge handled in the current iteration
    stepped,                 \* FSM case dispatched in the current iteration
    call                     \* driver call in progress: its mode argument and
                             \* the control register cache at its entry

vars == <<CONFIG_DAC_MAX, pc, iter, tune_state, trimdac_cal_line, vctcxo_tamer_pkt,
          vctcxo_tamer_en, vctcxo_tamer_en_old, vctcxo_tamer_ctrl_reg,
          vctcxo_trim_dac_value, regs, writes, hw_read, tune_state_old, isr_ran,
          edge, stepped, call>>

\* No driver call is in progress.
NoCall == [mode |-> 0, ctrl_reg_old |-> 0]

\* Values of CONFIG_DAC_MAX explored: a 12-bit and a 16-bit trim DAC.
DacMaxVals == {4095, 65535}

\* What the registers return to the producer in a run of the main loop: the
\* 1 s count, the 10 s and 100 s counts (opposite in sign, so that the window
\* a correction used shows in the DAC code), and the status byte (no window
\* bit, or one of them).
ErrVals == (-MaxErr) .. MaxErr
LongErrVals == {-1, 1}
Counts == {<<e1, e10, -e10>> : e1 \in ErrVals, e10 \in LongErrVals}
StatVals == {0, 1, 2, 4}

\* Wider inputs for the steps explored on their own: the calibration points
\* of a CoarseDone step, and the sample of a Fine step (every combination of
\* window bits, and counts large enough to leave the int32_t range once
\* multiplied by the slope).
WideErrVals == (-MaxWide) .. MaxWide
BigErrVals == {-65536, 65536}
FineErrVals == ErrVals \cup BigErrVals
FineLongErrVals == LongErrVals \cup BigErrVals
AllStatVals == 0 .. 7

\* Results lroundf may give for a value outside the range of long.
LongOverflowVals == {MinInt32, MaxInt32}

States == {"COARSE_TUNE_MIN", "COARSE_TUNE_MAX", "COARSE_TUNE_DONE", "FINE_TUNE"}

(***************************************************************************)
(* The driver (vctcxo_tamer.c) on a record of what it owns:                *)
(* [ctrl_reg, dac_value, regs, writes].                                    *)
(***************************************************************************)
Drv == [ctrl_reg  |-> vctcxo_tamer_ctrl_reg,
        dac_value |-> vctcxo_trim_dac_value,
        regs      |-> regs,
        writes    |-> writes]

vctcxo_tamer_write(d, addr, data) ==
    [d EXCEPT !.regs[addr] = data, !.writes = Append(@, <<addr, data>>)]

vctcxo_tamer_reset_counters(d, reset) ==
    LET c == IF reset THEN BitSet(d.ctrl_reg, VT_CTRL_RESET)
             ELSE BitClear(d.ctrl_reg, VT_CTRL_RESET)
    IN  vctcxo_tamer_write([d EXCEPT !.ctrl_reg = c], "VT_CTRL_ADDR", c)

vctcxo_tamer_enable_isr(d, enable) ==
    LET c == IF enable THEN BitSet(d.ctrl_reg, VT_CTRL_IRQ_EN)
             ELSE BitClear(d.ctrl_reg, VT_CTRL_IRQ_EN)
    IN  vctcxo_tamer_write([d EXCEPT !.ctrl_reg = c], "VT_CTRL_ADDR", c)

\* vctcxo_tamer_clear_isr keeping the clear bit in the cache.
vctcxo_tamer_clear_isr_Cached(d) ==
    LET c == BitSet(d.ctrl_reg, VT_CTRL_IRQ_CLR)
    IN  vctcxo_tamer_write([d EXCEPT !.ctrl_reg = c], "VT_CTRL_ADDR", c)

vctcxo_tamer_clear_isr(d) ==
    vctcxo_tamer_write(d, "VT_CTRL_ADDR", BitSet(d.ctrl_reg, VT_CTRL_IRQ_CLR))

vctcxo_tamer_set_tune_mode(d, mode) ==
    IF mode \notin {VCTCXO_TAMER_DISABLED, VCTCXO_TAMER_1_PPS, VCTCXO_TAMER_10_MHZ}
    THEN d
    ELSE LET d1 == vctcxo_tamer_enable_isr(d, FALSE)
             c  == (d1.ctrl_reg % 64) + mode * 64
             d2 == vctcxo_tamer_write([d1 EXCEPT !.ctrl_reg = c], "VT_CTRL_ADDR", c)
             d3 == vctcxo_tamer_reset_counters(d2, TRUE)
             d4 == IF mode # 0 THEN vctcxo_tamer_reset_counters(d3, FALSE) ELSE d3
         IN  IF mode \in {VCTCXO_TAMER_1_PPS, VCTCXO_TAMER_10_MHZ}
             THEN vctcxo_tamer_enable_isr(d4, TRUE)
             ELSE d4

vctcxo_trim_dac_write(d, val) ==
    LET v  == U16(val)
        d1 == vctcxo_tamer_write([d EXCEPT !.dac_value = v],
                                 "VT_DAC_TUNNED_VAL_ADDR0", v % 256)
    IN  vctcxo_tamer_write(d1, "VT_DAC_TUNNED_VAL_ADDR1", v \div 256)

vctcxo_tamer_init(d) ==
    vctcxo_tamer_set_tune_mode(vctcxo_tamer_write(d, "VT_STATE_ADDR", 0),
                               VCTCXO_TAMER_1_PPS)

\* vctcxo_tamer_dis without the state register write of line 190.
vctcxo_tamer_dis_NoState(d) ==
    vctcxo_tamer_set_tune_mode(d, VCTCXO_TAMER_DISABLED)

vctcxo_tamer_dis(d) ==
    vctcxo_tamer_write(vctcxo_tamer_set_tune_mode(d, VCTCXO_TAMER_DISABLED),
                       "VT_STATE_ADDR", 0)

\* vctcxo_tamer_isr with the counts stored only for the windows whose status
\* bit is set.
vctcxo_tamer_isr_KeepStale(d, pkt, e1, e10, e100, error_status) ==
    LET d1 == vctcxo_tamer_enable_isr(d, FALSE)
        d2 == vctcxo_tamer_reset_counters(d1, TRUE)
        d3 == vctcxo_tamer_clear_isr(d2)
        f1   == BitTest(error_status, VT_STAT_ERR_1S)
        f10  == BitTest(error_status, VT_STAT_ERR_10S)
        f100 == BitTest(error_status, VT_STAT_ERR_100S)
    IN  [drv |-> d3,
         pkt |-> [pkt EXCEPT !.pps_1s_error        = IF f1 THEN e1 ELSE @,
                             !.pps_10s_error       = IF f10 THEN e10 ELSE @,
                             !.pps_100s_error      = IF f100 THEN e100 ELSE @,
                             !.pps_1s_error_flag   = f1,
                             !.pps_10s_error_flag  = f10,
                             !.pps_100s_error_flag = f100,
                             !.ready               = TRUE]]

\* The producer: [drv, pkt] after vctcxo_tamer_isr(&pkt), given the three
\* counts and the status byte the registers return.
vctcxo_tamer_isr(d, pkt, e1, e10, e100, error_status) ==
    LET d1 == vctcxo_tamer_enable_isr(d, FALSE)
        d2 == vctcxo_tamer_reset_counters(d1, TRUE)
        d3 == vctcxo_tamer_clear_isr(d2)
    IN  [drv |-> d3,
         pkt |-> [pkt EXCEPT
                    !.pps_1s_error        = e1,
                    !.pps_10s_error       = e10,
                    !.pps_100s_error      = e100,
                    !.pps_1s_error_flag   = BitTest(error_status, VT_STAT_ERR_1S),
                    !.pps_10s_error_flag  = BitTest(error_status, VT_STAT_ERR_10S),
                    !.pps_100s_error_flag = BitTest(error_status, VT_STAT_ERR_100S),
                    !.ready               = TRUE]]

\* The trim DAC code the registers hold.
DacRegs(r) == r["VT_DAC_TUNNED_VAL_ADDR1"] * 256 + r["VT_DAC_TUNNED_VAL_ADDR0"]

(***************************************************************************)
(* Calibration arithmetic (main.c).                                        *)
(***************************************************************************)
\* CoarseDoneLine with the else branch of lines 227-230 clearing the slope
\* as well.
CoarseDoneLine_ClearSlope(line, pps_1s_error, ov) ==
    LET l1 == [line EXCEPT !.point[1].x = pps_1s_error]
        dx == l1.point[1].x - l1.point[0].x
        sl == FDiv(IntToFloat(l1.point[1].y - l1.point[0].y), IntToFloat(dx))
    IN  IF dx # 0
        THEN [l1 EXCEPT !.slope = sl,
                        !.y_intercept =
                            U16(l1.point[0].y
                                - U16(LRoundf(FMul(sl, IntToFloat(l1.point[0].x)), ov)))]
        ELSE [l1 EXCEPT !.slope = FZero, !.y_intercept = VCTCXO_DEFAULT_DAC_VALUE]

\* Case COARSE_TUNE_DONE, lines 213-230: the line after point[1].x is
\* recorded and slope and y_intercept are computed.  y_intercept is a
\* uint16_t DAC count, as is the argument of vctcxo_trim_dac_write.
CoarseDoneLine(line, pps_1s_error, ov) ==
    LET l1 == [line EXCEPT !.point[1].x = pps_1s_error]
        dx == l1.point[1].x - l1.point[0].x
        sl == FDiv(IntToFloat(l1.point[1].y - l1.point[0].y), IntToFloat(dx))
    IN  IF dx # 0
        THEN [l1 EXCEPT !.slope = sl,
                        !.y_intercept =
                            U16(l1.point[0].y
                                - U16(LRoundf(FMul(sl, IntToFloat(l1.point[0].x)), ov)))]
        ELSE [l1 EXCEPT !.y_intercept = VCTCXO_DEFAULT_DAC_VALUE]

\* adjust_trim_dac, the value before the clamp (lines 69-70).
AdjustNewValue(dac, error, slope, scale, ov) ==
    Sub32(dac, TruncDiv(LRoundf(FMul(IntToFloat(error), slope), ov), scale))

\* The clamp of lines 73-77.
ClampDac(new_value, dac_max) ==
    IF new_value > dac_max THEN dac_max
    ELSE IF new_value < 0 THEN 0
    ELSE new_value

adjust_trim_dac(d, error, slope, scale, ov, dac_max) ==
    vctcxo_trim_dac_write(
        d, ClampDac(AdjustNewValue(d.dac_value, error, slope, scale, ov), dac_max))

\* FineTuneStep with the branches of lines 257-268 in the opposite order.
FineTuneStep_LongFirst(d, pkt, slope, ov, dac_max) ==
    IF pkt.pps_100s_error_flag
    THEN adjust_trim_dac(d, pkt.pps_100s_error, slope, 100, ov, dac_max)
    ELSE IF pkt.pps_10s_error_flag
    THEN adjust_trim_dac(d, pkt.pps_10s_error, slope, 10, ov, dac_max)
    ELSE IF pkt.pps_1s_error_flag
    THEN adjust_trim_dac(d, pkt.pps_1s_error, slope, 1, ov, dac_max)
    ELSE d

\* Case FINE_TUNE, lines 257-268.
FineTuneStep(d, pkt, slope, ov, dac_max) ==
    IF pkt.pps_1s_error_flag
    THEN adjust_trim_dac(d, pkt.pps_1s_error, slope, 1, ov, dac_max)
    ELSE IF pkt.pps_10s_error_flag
    THEN adjust_trim_dac(d, pkt.pps_10s_error, slope, 10, ov, dac_max)
    ELSE IF pkt.pps_100s_error_flag
    THEN adjust_trim_dac(d, pkt.pps_100s_error, slope, 100, ov, dac_max)
    ELSE d

\* Rearm with the two calls of lines 278 and 281 in the opposite order.
Rearm_EnableFirst(d) ==
    vctcxo_tamer_reset_counters(vctcxo_tamer_enable_isr(d, TRUE), FALSE)

\* Lines 278-281, after the switch.
Rearm(d) == vctcxo_tamer_enable_isr(vctcxo_tamer_reset_counters(d, FALSE), TRUE)

(***************************************************************************)
(* Initial state: main() up to line 124.                                   *)
(***************************************************************************)
NoRegs == [a \in {"VT_CTRL_ADDR", "VT_STATE_ADDR",
                  "VT_DAC_TUNNED_VAL_ADDR0", "VT_DAC_TUNNED_VAL_ADDR1"} |-> 0]

InitLine(dac_max) ==
    [point       |-> [i \in {0, 1} |-> [x |-> 0,
                                        y |-> IF i = 0 THEN trimdac_min ELSE dac_max]],
     slope       |-> FZero,
     y_intercept |-> 0]

InitPkt ==
    [pps_1s_error |-> 0, pps_10s_error |-> 0, pps_100s_error |-> 0,
     pps_1s_error_flag |-> FALSE, pps_10s_error_flag |-> FALSE,
     pps_100s_error_flag |-> FALSE, ready |-> FALSE]

StartupDrv ==
    vctcxo_trim_dac_write([ctrl_reg |-> 0, dac_value |-> 0, regs |-> NoRegs,
                           writes |-> <<>>],
                          VCTCXO_DEFAULT_DAC_VALUE)

Init ==
    /\ CONFIG_DAC_MAX \in DacMaxVals
    /\ pc = "read_enable"
    /\ iter = 0
    /\ tune_state = "COARSE_TUNE_MIN"
    /\ trimdac_cal_line = InitLine(CONFIG_DAC_MAX)
    /\ vctcxo_tamer_pkt = InitPkt
    /\ vctcxo_tamer_en = 0
    /\ vctcxo_tamer_en_old = 0
    /\ vctcxo_tamer_ctrl_reg = StartupDrv.ctrl_reg
    /\ vctcxo_trim_dac_value = StartupDrv.dac_value
    /\ regs = StartupDrv.regs
    /\ writes = StartupDrv.writes
    /\ hw_read = <<0, 0, 0, 0>>
    /\ tune_state_old = "COARSE_TUNE_MIN"
    /\ isr_ran = FALSE
    /\ edge = "none"
    /\ stepped = "none"
    /\ call = NoCall

(***************************************************************************)
(* The main loop, lines 129-284.                                           *)
(***************************************************************************)
SetDrv(d) ==
    /\ vctcxo_tamer_ctrl_reg' = d.ctrl_reg
    /\ vctcxo_trim_dac_value' = d.dac_value
    /\ regs' = d.regs
    /\ writes' = d.writes

DrvVars == <<vctcxo_tamer_ctrl_reg, vctcxo_trim_dac_value, regs, writes>>

\* Lines 132-133: a new iteration reads the enable bit.
ReadEnable ==
    /\ pc = "read_enable"
    /\ iter < MaxIter
    /\ iter' = iter + 1
    /\ vctcxo_tamer_en_old' = vctcxo_tamer_en
    /\ \E en \in {0, 1} : vctcxo_tamer_en' = en
    /\ writes' = <<>>
    /\ tune_state_old' = tune_state
    /\ isr_ran' = FALSE
    /\ edge' = "none"
    /\ stepped' = "none"
    /\ pc' = "poll"
    /\ UNCHANGED <<CONFIG_DAC_MAX, call, tune_state, trimdac_cal_line, vctcxo_tamer_pkt,
                   vctcxo_tamer_ctrl_reg, vctcxo_trim_dac_value, regs, hw_read>>

\* One run of the producer on the mailbox.
Produce ==
    \E c \in Counts, error_status \in StatVals :
        LET r == vctcxo_tamer_isr(Drv, vctcxo_tamer_pkt, c[1], c[2], c[3], error_status)
        IN  /\ SetDrv(r.drv)
            /\ vctcxo_tamer_pkt' = r.pkt
            /\ hw_read' = <<c[1], c[2], c[3], error_status>>

\* Lines 136-138: the status register reads non-zero and the producer runs.
PollIsr ==
    /\ pc = "poll"
    /\ Produce
    /\ isr_ran' = TRUE
    /\ pc' = "edge"
    /\ UNCHANGED <<CONFIG_DAC_MAX, call, iter, tune_state, trimdac_cal_line,
                   vctcxo_tamer_en, vctcxo_tamer_en_old, tune_state_old, edge, stepped>>

\* Line 136: the status register reads zero.
PollIdle ==
    /\ pc = "poll"
    /\ pc' = "edge"
    /\ UNCHANGED <<CONFIG_DAC_MAX, call, iter, tune_state, trimdac_cal_line, vctcxo_tamer_pkt,
                   vctcxo_tamer_en, vctcxo_tamer_en_old, DrvVars, hw_read, tune_state_old, isr_ran,
                   edge, stepped>>

\* EnableEdge without line 146: the mailbox is not marked ready.
EnableEdge_NoReady ==
    /\ pc = "edge"
    /\ vctcxo_tamer_en_old # vctcxo_tamer_en
    /\ vctcxo_tamer_en = 1
    /\ SetDrv(vctcxo_tamer_init(Drv))
    /\ tune_state' = "COARSE_TUNE_MIN"
    /\ edge' = "enable"
    /\ pc' = "fsm"
    /\ UNCHANGED <<CONFIG_DAC_MAX, call, iter, trimdac_cal_line, vctcxo_tamer_pkt,
                   vctcxo_tamer_en, vctcxo_tamer_en_old, hw_read, tune_state_old,
                   isr_ran, stepped>>

\* Lines 141-147.
EnableEdge ==
    /\ pc = "edge"
    /\ vctcxo_tamer_en_old # vctcxo_tamer_en
    /\ vctcxo_tamer_en = 1
    /\ SetDrv(vctcxo_tamer_init(Drv))
    /\ tune_state' = "COARSE_TUNE_MIN"
    /\ vctcxo_tamer_pkt' = [vctcxo_tamer_pkt EXCEPT !.ready = TRUE]
    /\ edge' = "enable"
    /\ pc' = "fsm"
    /\ UNCHANGED <<CONFIG_DAC_MAX, call, iter, trimdac_cal_line, vctcxo_tamer_en,
                   vctcxo_tamer_en_old, hw_read, tune_state_old, isr_ran, stepped>>

\* DisableEdge without line 152: the mailbox keeps its ready flag.
DisableEdge_KeepReady ==
    /\ pc = "edge"
    /\ vctcxo_tamer_en_old # vctcxo_tamer_en
    /\ vctcxo_tamer_en # 1
    /\ SetDrv(vctcxo_tamer_dis(Drv))
    /\ tune_state' = "COARSE_TUNE_MIN"
    /\ edge' = "disable"
    /\ pc' = "fsm"
    /\ UNCHANGED <<CONFIG_DAC_MAX, call, iter, trimdac_cal_line, vctcxo_tamer_pkt, vctcxo_tamer_en,
                   vctcxo_tamer_en_old, hw_read, tune_state_old, isr_ran, stepped>>

\* Lines 141, 149-153.
DisableEdge ==
    /\ pc = "edge"
    /\ vctcxo_tamer_en_old # vctcxo_tamer_en
    /\ vctcxo_tamer_en # 1
    /\ SetDrv(vctcxo_tamer_dis(Drv))
    /\ tune_state' = "COARSE_TUNE_MIN"
    /\ vctcxo_tamer_pkt' = [vctcxo_tamer_pkt EXCEPT !.ready = FALSE]
    /\ edge' = "disable"
    /\ pc' = "fsm"
    /\ UNCHANGED <<CONFIG_DAC_MAX, call, iter, trimdac_cal_line, vctcxo_tamer_en,
                   vctcxo_tamer_en_old, hw_read, tune_state_old, isr_ran, stepped>>

\* Line 141: no edge.
NoEdge ==
    /\ pc = "edge"
    /\ vctcxo_tamer_en_old = vctcxo_tamer_en
    /\ pc' = "fsm"
    /\ UNCHANGED <<CONFIG_DAC_MAX, call, iter, tune_state, trimdac_cal_line, vctcxo_tamer_pkt,
                   vctcxo_tamer_en, vctcxo_tamer_en_old, DrvVars, hw_read, tune_state_old, isr_ran,
                   edge, stepped>>

\* Dispatch without line 159: the consumed sample stays marked ready.
Dispatch_KeepReady(state) ==
    /\ pc = "fsm"
    /\ vctcxo_tamer_pkt.ready
    /\ tune_state = state
    /\ UNCHANGED vctcxo_tamer_pkt
    /\ stepped' = state
    /\ pc' = "read_enable"
    /\ UNCHANGED <<CONFIG_DAC_MAX, call, iter, vctcxo_tamer_en, vctcxo_tamer_en_old,
                   hw_read, tune_state_old, isr_ran, edge>>

\* What every dispatched case shares: lines 157-161 and 277-281.
Dispatch(state) ==
    /\ pc = "fsm"
    /\ vctcxo_tamer_pkt.ready
    /\ tune_state = state
    /\ vctcxo_tamer_pkt' = [vctcxo_tamer_pkt EXCEPT !.ready = FALSE]
    /\ stepped' = state
    /\ pc' = "read_enable"
    /\ UNCHANGED <<CONFIG_DAC_MAX, call, iter, vctcxo_tamer_en, vctcxo_tamer_en_old,
                   hw_read, tune_state_old, isr_ran, edge>>

\* CoarseTuneMin without the DAC write of line 171.
CoarseTuneMin_NoWrite ==
    /\ Dispatch("COARSE_TUNE_MIN")
    /\ SetDrv(Rearm(vctcxo_tamer_reset_counters(Drv, TRUE)))
    /\ tune_state' = "COARSE_TUNE_MAX"
    /\ UNCHANGED trimdac_cal_line

\* Lines 167-178.
CoarseTuneMin ==
    /\ Dispatch("COARSE_TUNE_MIN")
    /\ SetDrv(Rearm(vctcxo_tamer_reset_counters(
                        vctcxo_trim_dac_write(Drv, trimdac_min), TRUE)))
    /\ tune_state' = "COARSE_TUNE_MAX"
    /\ UNCHANGED trimdac_cal_line

\* CoarseTuneMax with the next state of line 196 set one case too far.
CoarseTuneMax_Skip ==
    /\ Dispatch("COARSE_TUNE_MAX")
    /\ trimdac_cal_line' =
           [trimdac_cal_line EXCEPT !.point[0].x = vctcxo_tamer_pkt.pps_1s_error]
    /\ SetDrv(Rearm(vctcxo_tamer_reset_counters(
                        vctcxo_trim_dac_write(Drv, CONFIG_DAC_MAX), TRUE)))
    /\ tune_state' = "FINE_TUNE"

\* Lines 183-198.
CoarseTuneMax ==
    /\ Dispatch("COARSE_TUNE_MAX")
    /\ trimdac_cal_line' =
           [trimdac_cal_line EXCEPT !.point[0].x = vctcxo_tamer_pkt.pps_1s_error]
    /\ SetDrv(Rearm(vctcxo_tamer_reset_counters(
                        vctcxo_trim_dac_write(Drv, CONFIG_DAC_MAX), TRUE)))
    /\ tune_state' = "COARSE_TUNE_DONE"

\* CoarseTuneDone without line 236: the phase stays at CoarseDone.
CoarseTuneDone_Stay ==
    /\ Dispatch("COARSE_TUNE_DONE")
    /\ \E ov \in LongOverflowVals :
          \E line \in {CoarseDoneLine(trimdac_cal_line, vctcxo_tamer_pkt.pps_1s_error, ov)} :
              /\ trimdac_cal_line' = line
              /\ SetDrv(Rearm(vctcxo_trim_dac_write(
                                  vctcxo_tamer_write(Drv, "VT_STATE_ADDR", 1),
                                  line.y_intercept)))
    /\ tune_state' = "COARSE_TUNE_DONE"

\* Lines 204-238.
CoarseTuneDone ==
    /\ Dispatch("COARSE_TUNE_DONE")
    /\ \E ov \in LongOverflowVals :
          \E line \in {CoarseDoneLine(trimdac_cal_line, vctcxo_tamer_pkt.pps_1s_error, ov)} :
              /\ trimdac_cal_line' = line
              /\ SetDrv(Rearm(vctcxo_trim_dac_write(
                                  vctcxo_tamer_write(Drv, "VT_STATE_ADDR", 1),
                                  line.y_intercept)))
    /\ tune_state' = "FINE_TUNE"

\* Lines 243-270.
FineTune ==
    /\ Dispatch("FINE_TUNE")
    /\ \E ov \in LongOverflowVals :
          SetDrv(Rearm(FineTuneStep(Drv, vctcxo_tamer_pkt, trimdac_cal_line.slope,
                                    ov, CONFIG_DAC_MAX)))
    /\ UNCHANGED <<tune_state, trimdac_cal_line>>

\* Line 157: the mailbox is not ready.
NoSample ==
    /\ pc = "fsm"
    /\ ~vctcxo_tamer_pkt.ready
    /\ pc' = "read_enable"
    /\ UNCHANGED <<CONFIG_DAC_MAX, call, iter, tune_state, trimdac_cal_line, vctcxo_tamer_pkt,
                   vctcxo_tamer_en, vctcxo_tamer_en_old, DrvVars, hw_read, tune_state_old, isr_ran,
                   edge, stepped>>

Next ==
    \/ ReadEnable
    \/ PollIsr
    \/ PollIdle
    \/ EnableEdge
    \/ DisableEdge
    \/ NoEdge
    \/ CoarseTuneMin
    \/ CoarseTuneMax
    \/ CoarseTuneDone
    \/ FineTune
    \/ NoSample

Spec == Init /\ [][Next]_vars

(***************************************************************************)
(* Single steps on their own.  The driver state of each starting point is  *)
(* the one the main loop has there in a calibration run: enable edge and    *)
(* CoarseMin, a sample and CoarseMax, a sample (and CoarseDone, a sample).  *)
(***************************************************************************)
NewIteration(d) == [d EXCEPT !.writes = <<>>]
ProducerDrv(d) == vctcxo_tamer_isr(NewIteration(d), InitPkt, 0, 0, 0, 0).drv

DrvAfterCoarseMin ==
    Rearm(vctcxo_tamer_reset_counters(
              vctcxo_trim_dac_write(vctcxo_tamer_init(NewIteration(StartupDrv)),
                                    trimdac_min), TRUE))

DrvAfterCoarseMax(dac_max) ==
    Rearm(vctcxo_tamer_reset_counters(
              vctcxo_trim_dac_write(ProducerDrv(DrvAfterCoarseMin), dac_max), TRUE))

DrvAfterCoarseDone(dac_max, y_intercept) ==
    Rearm(vctcxo_trim_dac_write(
              vctcxo_tamer_write(ProducerDrv(DrvAfterCoarseMax(dac_max)),
                                 "VT_STATE_ADDR", 1),
              y_intercept))

\* The line an earlier calibration run may have left behind (main.c never
\* sets it again after line 117).
PriorLines(dac_max) ==
    {InitLine(dac_max)}
        \cup {CoarseDoneLine([InitLine(dac_max) EXCEPT !.point[0].x = a], b, MinInt32) :
                 a \in ErrVals, b \in ErrVals}

\* A sample is ready in phase CoarseDone, enable high.
InitDone ==
    /\ CONFIG_DAC_MAX \in DacMaxVals
    /\ pc = "fsm"
    /\ iter = MaxIter
    /\ tune_state = "COARSE_TUNE_DONE"
    /\ tune_state_old = "COARSE_TUNE_DONE"
    /\ \E x0 \in WideErrVals, x1 \in WideErrVals, prior \in PriorLines(CONFIG_DAC_MAX) :
          /\ trimdac_cal_line = [prior EXCEPT !.point[0].x = x0]
          /\ hw_read = <<x1, 1, -1, 1>>
          /\ vctcxo_tamer_pkt =
                 vctcxo_tamer_isr(StartupDrv, InitPkt, x1, 1, -1, 1).pkt
    /\ vctcxo_tamer_en = 1
    /\ vctcxo_tamer_en_old = 1
    /\ LET d == ProducerDrv(DrvAfterCoarseMax(CONFIG_DAC_MAX))
       IN  /\ vctcxo_tamer_ctrl_reg = d.ctrl_reg
           /\ vctcxo_trim_dac_value = d.dac_value
           /\ regs = d.regs
           /\ writes = d.writes
    /\ isr_ran = TRUE
    /\ edge = "none"
    /\ stepped = "none"
    /\ call = NoCall

SpecDone == InitDone /\ [][CoarseTuneDone]_vars

\* A sample is ready in phase Fine, right after a calibration run on the
\* points x0, x1.
InitFine ==
    /\ CONFIG_DAC_MAX \in DacMaxVals
    /\ pc = "fsm"
    /\ iter = MaxIter
    /\ tune_state = "FINE_TUNE"
    /\ tune_state_old = "FINE_TUNE"
    /\ \E x0 \in ErrVals, x1 \in ErrVals :
          /\ trimdac_cal_line =
                 CoarseDoneLine([InitLine(CONFIG_DAC_MAX) EXCEPT !.point[0].x = x0],
                                x1, MinInt32)
    /\ \E e1 \in FineErrVals, e10 \in FineLongErrVals, e100 \in FineLongErrVals,
          error_status \in AllStatVals :
          /\ hw_read = <<e1, e10, e100, error_status>>
          /\ vctcxo_tamer_pkt =
                 vctcxo_tamer_isr(StartupDrv, InitPkt, e1, e10, e100, error_status).pkt
    /\ vctcxo_tamer_en = 1
    /\ vctcxo_tamer_en_old = 1
    /\ LET d == ProducerDrv(DrvAfterCoarseDone(CONFIG_DAC_MAX,
                                               trimdac_cal_line.y_intercept))
       IN  /\ vctcxo_tamer_ctrl_reg = d.ctrl_reg
           /\ vctcxo_trim_dac_value = d.dac_value
           /\ regs = d.regs
           /\ writes = d.writes
    /\ isr_ran = TRUE
    /\ edge = "none"
    /\ stepped = "none"
    /\ call = NoCall

SpecFine == InitFine /\ [][FineTune]_vars

\* The producer called on its own, any number of times in a row.
IsrCall ==
    /\ iter < MaxIter
    /\ iter' = iter + 1
    /\ Produce
    /\ isr_ran' = TRUE
    /\ UNCHANGED <<CONFIG_DAC_MAX, call, pc, tune_state, trimdac_cal_line, vctcxo_tamer_en,
                   vctcxo_tamer_en_old, tune_state_old, edge, stepped, call>>

SpecIsr == Init /\ [][IsrCall]_vars

(***************************************************************************)
(* The producer statement by statement (vctcxo_tamer.c:146-176), called any *)
(* number of times; between two calls the main loop may have consumed the   *)
(* sample (main.c:159, 278-281).                                            *)
(***************************************************************************)
LoopVars == <<CONFIG_DAC_MAX, tune_state, trimdac_cal_line, vctcxo_tamer_en,
              vctcxo_tamer_en_old, tune_state_old, edge, stepped, call>>

InitIsrSteps ==
    /\ CONFIG_DAC_MAX \in DacMaxVals
    /\ pc = "isr_idle"
    /\ iter = 0
    /\ tune_state = "COARSE_TUNE_MIN"
    /\ trimdac_cal_line = InitLine(CONFIG_DAC_MAX)
    /\ vctcxo_tamer_pkt = InitPkt
    /\ vctcxo_tamer_en = 0
    /\ vctcxo_tamer_en_old = 0
    /\ vctcxo_tamer_ctrl_reg = StartupDrv.ctrl_reg
    /\ vctcxo_trim_dac_value = StartupDrv.dac_value
    /\ regs = StartupDrv.regs
    /\ writes = StartupDrv.writes
    /\ hw_read = <<0, 0, 0, 0>>
    /\ tune_state_old = "COARSE_TUNE_MIN"
    /\ isr_ran = FALSE
    /\ edge = "none"
    /\ stepped = "none"
    /\ call = NoCall

\* The call at main.c:137, after the main loop has or has not consumed the
\* sample of the call before.
IsrEnter ==
    /\ pc = "isr_idle"
    /\ iter < MaxIter
    /\ iter' = iter + 1
    /\ \E consumed \in BOOLEAN :
          IF consumed /\ vctcxo_tamer_pkt.ready
          THEN /\ vctcxo_tamer_pkt' = [vctcxo_tamer_pkt EXCEPT !.ready = FALSE]
               /\ SetDrv(NewIteration(Rearm(Drv)))
          ELSE /\ UNCHANGED vctcxo_tamer_pkt
               /\ SetDrv(NewIteration(Drv))
    /\ isr_ran' = FALSE
    /\ pc' = "isr_disable"
    /\ UNCHANGED <<LoopVars, hw_read>>

\* IsrDisableIrq marking the mailbox ready before anything else is done.
IsrDisableIrq_ReadyFirst ==
    /\ pc = "isr_disable"
    /\ SetDrv(vctcxo_tamer_enable_isr(Drv, FALSE))
    /\ vctcxo_tamer_pkt' = [vctcxo_tamer_pkt EXCEPT !.ready = TRUE]
    /\ pc' = "isr_reset"
    /\ UNCHANGED <<LoopVars, iter, hw_read, isr_ran>>

\* Line 151.
IsrDisableIrq ==
    /\ pc = "isr_disable"
    /\ SetDrv(vctcxo_tamer_enable_isr(Drv, FALSE))
    /\ pc' = "isr_reset"
    /\ UNCHANGED <<LoopVars, iter, vctcxo_tamer_pkt, hw_read, isr_ran>>

\* Line 154.
IsrResetCounters ==
    /\ pc = "isr_reset"
    /\ SetDrv(vctcxo_tamer_reset_counters(Drv, TRUE))
    /\ pc' = "isr_counts"
    /\ UNCHANGED <<LoopVars, iter, vctcxo_tamer_pkt, hw_read, isr_ran>>

\* Lines 157-159.
IsrReadCounts ==
    /\ pc = "isr_counts"
    /\ \E c \in Counts :
          /\ vctcxo_tamer_pkt' = [vctcxo_tamer_pkt EXCEPT !.pps_1s_error   = c[1],
                                                          !.pps_10s_error  = c[2],
                                                          !.pps_100s_error = c[3]]
          /\ hw_read' = <<c[1], c[2], c[3], hw_read[4]>>
    /\ pc' = "isr_status"
    /\ UNCHANGED <<LoopVars, iter, DrvVars, isr_ran>>

\* Lines 162-167.
IsrReadStatus ==
    /\ pc = "isr_status"
    /\ \E error_status \in StatVals :
          /\ vctcxo_tamer_pkt' =
                 [vctcxo_tamer_pkt EXCEPT
                    !.pps_1s_error_flag   = BitTest(error_status, VT_STAT_ERR_1S),
                    !.pps_10s_error_flag  = BitTest(error_status, VT_STAT_ERR_10S),
                    !.pps_100s_error_flag = BitTest(error_status, VT_STAT_ERR_100S)]
          /\ hw_read' = [hw_read EXCEPT ![4] = error_status]
    /\ pc' = "isr_clear"
    /\ UNCHANGED <<LoopVars, iter, DrvVars, isr_ran>>

\* Line 170.
IsrClear ==
    /\ pc = "isr_clear"
    /\ SetDrv(vctcxo_tamer_clear_isr(Drv))
    /\ pc' = "isr_publish"
    /\ UNCHANGED <<LoopVars, iter, vctcxo_tamer_pkt, hw_read, isr_ran>>

\* Line 173.
IsrPublish ==
    /\ pc = "isr_publish"
    /\ vctcxo_tamer_pkt' = [vctcxo_tamer_pkt EXCEPT !.ready = TRUE]
    /\ isr_ran' = TRUE
    /\ pc' = "isr_idle"
    /\ UNCHANGED <<LoopVars, iter, DrvVars, hw_read>>

NextIsrSteps ==
    \/ IsrEnter
    \/ IsrDisableIrq
    \/ IsrResetCounters
    \/ IsrReadCounts
    \/ IsrReadStatus
    \/ IsrClear
    \/ IsrPublish

SpecIsrSteps == InitIsrSteps /\ [][NextIsrSteps]_vars

(***************************************************************************)
(* The main loop running forever (while (1), main.c:129): the iteration     *)
(* count saturates, and the producer reads 1 s counts of -1 or 1 and no     *)
(* 10 s or 100 s count, which keeps the set of DAC codes small.             *)
(***************************************************************************)
LiveCounts == {<<-1, 0, 0>>, <<1, 0, 0>>}

ReadEnableLive ==
    /\ pc = "read_enable"
    /\ iter' = IF iter < MaxIter THEN iter + 1 ELSE iter
    /\ vctcxo_tamer_en_old' = vctcxo_tamer_en
    /\ \E en \in {0, 1} : vctcxo_tamer_en' = en
    /\ writes' = <<>>
    /\ tune_state_old' = tune_state
    /\ isr_ran' = FALSE
    /\ edge' = "none"
    /\ stepped' = "none"
    /\ pc' = "poll"
    /\ UNCHANGED <<CONFIG_DAC_MAX, call, tune_state, trimdac_cal_line, vctcxo_tamer_pkt,
                   vctcxo_tamer_ctrl_reg, vctcxo_trim_dac_value, regs, hw_read>>

PollIsrLive ==
    /\ pc = "poll"
    /\ \E c \in LiveCounts, error_status \in StatVals :
          LET r == vctcxo_tamer_isr(Drv, vctcxo_tamer_pkt, c[1], c[2], c[3], error_status)
          IN  /\ SetDrv(r.drv)
              /\ vctcxo_tamer_pkt' = r.pkt
              /\ hw_read' = <<c[1], c[2], c[3], error_status>>
    /\ isr_ran' = TRUE
    /\ pc' = "edge"
    /\ UNCHANGED <<CONFIG_DAC_MAX, call, iter, tune_state, trimdac_cal_line,
                   vctcxo_tamer_en, vctcxo_tamer_en_old, tune_state_old, edge, stepped>>

NextLive ==
    \/ ReadEnableLive
    \/ PollIsrLive
    \/ PollIdle
    \/ EnableEdge
    \/ DisableEdge
    \/ NoEdge
    \/ CoarseTuneMin
    \/ CoarseTuneMax
    \/ CoarseTuneDone
    \/ FineTune
    \/ NoSample

\* The processor never stops: every statement of NextLive moves the loop to
\* its next position, and the loop does not stay at one position forever.
LoopPcs == {"read_enable", "poll", "edge", "fsm"}
LoopStep == pc' \in LoopPcs \ {pc}
SpecLive == Init /\ [][NextLive]_vars /\ WF_pc(LoopStep)

(***************************************************************************)
(* The control-register calls of the driver in any order, from the cache   *)
(* of a freshly started program (a zero-initialised global,                *)
(* vctcxo_tamer.c:21).  vctcxo_tamer_set_tune_mode is taken one register    *)
(* write at a time; writes holds the writes of the current call.           *)
(***************************************************************************)
DrvReturns == {"ret_reset_counters", "ret_enable_isr", "ret_clear_isr",
               "ret_set_tune_mode"}
DrvCallSites == {"drv_idle"} \cup DrvReturns

\* Arguments passed as vctcxo_tamer_mode: the three enumerators and a value
\* that is none of them.
TuneModeArgs == 0 .. 3

CallVars == <<CONFIG_DAC_MAX, iter, tune_state, trimdac_cal_line, vctcxo_tamer_pkt,
              vctcxo_tamer_en, vctcxo_tamer_en_old, hw_read, tune_state_old,
              isr_ran, edge, stepped>>

InitDrvCalls ==
    /\ CONFIG_DAC_MAX \in DacMaxVals
    /\ pc = "drv_idle"
    /\ iter = 0
    /\ tune_state = "COARSE_TUNE_MIN"
    /\ trimdac_cal_line = InitLine(CONFIG_DAC_MAX)
    /\ vctcxo_tamer_pkt = InitPkt
    /\ vctcxo_tamer_en = 0
    /\ vctcxo_tamer_en_old = 0
    /\ vctcxo_tamer_ctrl_reg = StartupDrv.ctrl_reg
    /\ vctcxo_trim_dac_value = StartupDrv.dac_value
    /\ regs = StartupDrv.regs
    /\ writes = <<>>
    /\ hw_read = <<0, 0, 0, 0>>
    /\ tune_state_old = "COARSE_TUNE_MIN"
    /\ isr_ran = FALSE
    /\ edge = "none"
    /\ stepped = "none"
    /\ call = NoCall

\* Lines 45-54.
CallResetCounters ==
    /\ pc \in DrvCallSites
    /\ \E reset \in BOOLEAN :
          SetDrv(vctcxo_tamer_reset_counters(NewIteration(Drv), reset))
    /\ call' = [mode |-> 0, ctrl_reg_old |-> vctcxo_tamer_ctrl_reg]
    /\ pc' = "ret_reset_counters"
    /\ UNCHANGED CallVars

\* Lines 57-66.
CallEnableIsr ==
    /\ pc \in DrvCallSites
    /\ \E enable \in BOOLEAN :
          SetDrv(vctcxo_tamer_enable_isr(NewIteration(Drv), enable))
    /\ call' = [mode |-> 0, ctrl_reg_old |-> vctcxo_tamer_ctrl_reg]
    /\ pc' = "ret_enable_isr"
    /\ UNCHANGED CallVars

\* Lines 69-72.
CallClearIsr ==
    /\ pc \in DrvCallSites
    /\ SetDrv(vctcxo_tamer_clear_isr(NewIteration(Drv)))
    /\ call' = [mode |-> 0, ctrl_reg_old |-> vctcxo_tamer_ctrl_reg]
    /\ pc' = "ret_clear_isr"
    /\ UNCHANGED CallVars

\* Lines 75-87: an erroneous mode returns at once, a valid one disables the
\* interrupt first.
StmEnter ==
    /\ pc \in DrvCallSites
    /\ \E mode \in TuneModeArgs :
          /\ call' = [mode |-> mode, ctrl_reg_old |-> vctcxo_tamer_ctrl_reg]
          /\ IF mode \in {VCTCXO_TAMER_DISABLED, VCTCXO_TAMER_1_PPS, VCTCXO_TAMER_10_MHZ}
             THEN /\ SetDrv(vctcxo_tamer_enable_isr(NewIteration(Drv), FALSE))
                  /\ pc' = "stm_set_mode"
             ELSE /\ SetDrv(NewIteration(Drv))
                  /\ pc' = "ret_set_tune_mode"
    /\ UNCHANGED CallVars

\* Lines 90-92.
StmSetMode ==
    /\ pc = "stm_set_mode"
    /\ LET c == (vctcxo_tamer_ctrl_reg % 64) + call.mode * 64
       IN  SetDrv(vctcxo_tamer_write([Drv EXCEPT !.ctrl_reg = c], "VT_CTRL_ADDR", c))
    /\ pc' = "stm_reset"
    /\ UNCHANGED <<CallVars, call>>

\* Line 95.
StmReset ==
    /\ pc = "stm_reset"
    /\ SetDrv(vctcxo_tamer_reset_counters(Drv, TRUE))
    /\ pc' = "stm_release"
    /\ UNCHANGED <<CallVars, call>>

\* Lines 98-100.
StmRelease ==
    /\ pc = "stm_release"
    /\ SetDrv(IF call.mode # 0 THEN vctcxo_tamer_reset_counters(Drv, FALSE) ELSE Drv)
    /\ pc' = "stm_enable"
    /\ UNCHANGED <<CallVars, call>>

\* Lines 102-113.
StmEnable ==
    /\ pc = "stm_enable"
    /\ SetDrv(IF call.mode \in {VCTCXO_TAMER_1_PPS, VCTCXO_TAMER_10_MHZ}
              THEN vctcxo_tamer_enable_isr(Drv, TRUE)
              ELSE Drv)
    /\ pc' = "ret_set_tune_mode"
    /\ UNCHANGED <<CallVars, call>>

NextDrvCalls ==
    \/ CallResetCounters
    \/ CallEnableIsr
    \/ CallClearIsr
    \/ StmEnter
    \/ StmSetMode
    \/ StmReset
    \/ StmRelease
    \/ StmEnable

SpecDrvCalls == InitDrvCalls /\ [][NextDrvCalls]_vars

(***************************************************************************)
(* Properties.                                                             *)
(***************************************************************************)
\* What the properties below observe of an iteration.
IterationDone == pc = "read_enable" /\ iter > 0
EnableSeen == vctcxo_tamer_en_old = 0 /\ vctcxo_tamer_en = 1
DisableSeen == vctcxo_tamer_en_old = 1 /\ vctcxo_tamer_en = 0
DacAddrs == {"VT_DAC_TUNNED_VAL_ADDR0", "VT_DAC_TUNNED_VAL_ADDR1"}
IsDacWrite(w) == w[1] \in DacAddrs
DacWrites == SelectSeq(writes, IsDacWrite)

ForwardSteps ==
    {<<"COARSE_TUNE_MIN", "COARSE_TUNE_MAX">>, <<"COARSE_TUNE_MAX", "COARSE_TUNE_DONE">>,
     <<"COARSE_TUNE_DONE", "FINE_TUNE">>, <<"FINE_TUNE", "FINE_TUNE">>}

\* C1: the phase changes only by a state-machine step on a ready mailbox,
\* which moves it one case forward (Fine stays Fine), or by an enable or
\* disable edge, which resets it to CoarseMin; an iteration with neither
\* leaves the phase as it was.
C1_PhaseTransitions ==
    [][/\ (pc = "fsm" /\ vctcxo_tamer_pkt.ready)
            => <<tune_state, tune_state'>> \in ForwardSteps
       /\ (pc = "edge" /\ vctcxo_tamer_en_old # vctcxo_tamer_en)
            => tune_state' = "COARSE_TUNE_MIN"
       /\ (/\ ~(pc = "fsm" /\ vctcxo_tamer_pkt.ready)
           /\ ~(pc = "edge" /\ vctcxo_tamer_en_old # vctcxo_tamer_en))
            => tune_state' = tune_state
       /\ (pc' = "read_enable" /\ edge' = "none" /\ stepped' = "none")
            => tune_state' = tune_state_old'
      ]_vars

\* A Fine -> Fine step has run.
C1_Witness ==
    IterationDone /\ stepped = "FINE_TUNE" /\ tune_state_old = "FINE_TUNE"

\* C2: an iteration that saw the enable signal rise ran exactly the
\* CoarseMin case: the DAC was written with the minimum code and the phase
\* is CoarseMax when the iteration ends.
C2_EnableEdgeRunsCoarseMin ==
    (IterationDone /\ EnableSeen)
        => /\ stepped = "COARSE_TUNE_MIN"
           /\ tune_state = "COARSE_TUNE_MAX"
           /\ vctcxo_trim_dac_value = 0
           /\ DacRegs(regs) = 0
           /\ DacWrites = <<<<"VT_DAC_TUNNED_VAL_ADDR0", 0>>,
                            <<"VT_DAC_TUNNED_VAL_ADDR1", 0>>>>

\* The enable signal rose in the Fine phase, after the producer had run in
\* the same iteration.
C2_Witness ==
    IterationDone /\ EnableSeen /\ isr_ran /\ tune_state_old = "FINE_TUNE"

\* n / d rounded to the nearest integer, halves away from zero (d # 0).
RoundDiv(n, d) ==
    LET mag == (2 * Abs(n) + Abs(d)) \div (2 * Abs(d))
    IN  IF (n < 0) # (d < 0) THEN -mag ELSE mag

Into(lo, v, hi) == IF v < lo THEN lo ELSE IF v > hi THEN hi ELSE v

\* point0.y - round(slope * point0.x) for the line through the two points,
\* clamped into [0, DacMax].
ClampedIntercept(line) ==
    Into(0,
         line.point[0].y
           - RoundDiv((line.point[1].y - line.point[0].y) * line.point[0].x,
                      line.point[1].x - line.point[0].x),
         CONFIG_DAC_MAX)

CoarseDoneRan == IterationDone /\ stepped = "COARSE_TUNE_DONE"
Degenerate == trimdac_cal_line.point[1].x = trimdac_cal_line.point[0].x

\* C3: after a CoarseDone step on two points with different error counts the
\* DAC holds point0.y - round(slope * point0.x) clamped into [0, DacMax].
C3_InterceptClamped ==
    (CoarseDoneRan /\ ~Degenerate)
        => /\ DacRegs(regs) = ClampedIntercept(trimdac_cal_line)
           /\ vctcxo_trim_dac_value = ClampedIntercept(trimdac_cal_line)

\* C4: a CoarseDone step on a sample whose 1 s error equals point0.x leaves
\* the slope alone, sets y_intercept to the default code, writes that code to
\* the DAC and moves on to Fine.
C4_DegenerateDefault ==
    [][(/\ pc = "fsm"
        /\ vctcxo_tamer_pkt.ready
        /\ tune_state = "COARSE_TUNE_DONE"
        /\ vctcxo_tamer_pkt.pps_1s_error = trimdac_cal_line.point[0].x)
          => /\ trimdac_cal_line'.slope = trimdac_cal_line.slope
             /\ trimdac_cal_line'.y_intercept = 30714
             /\ vctcxo_trim_dac_value' = 30714
             /\ regs'["VT_DAC_TUNNED_VAL_ADDR0"] = 250
             /\ regs'["VT_DAC_TUNNED_VAL_ADDR1"] = 119
             /\ tune_state' = "FINE_TUNE"
      ]_vars

\* A degenerate CoarseDone step has run on a line that carried a slope.
C4_Witness ==
    CoarseDoneRan /\ Degenerate /\ trimdac_cal_line.slope # FZero
        /\ trimdac_cal_line.point[0].x # 0

\* C5: the cached trim code and the code held by the DAC registers lie in
\* [0, DacMax] in every state, for every configured DacMax.
C5_DacInRange ==
    /\ vctcxo_trim_dac_value \in 0 .. CONFIG_DAC_MAX
    /\ DacRegs(regs) \in 0 .. CONFIG_DAC_MAX

\* The error count and window length a Fine step corrects with.
FineStepReady ==
    pc = "fsm" /\ vctcxo_tamer_pkt.ready /\ tune_state = "FINE_TUNE"
AnyFlag ==
    \/ vctcxo_tamer_pkt.pps_1s_error_flag
    \/ vctcxo_tamer_pkt.pps_10s_error_flag
    \/ vctcxo_tamer_pkt.pps_100s_error_flag
UsedError ==
    IF vctcxo_tamer_pkt.pps_1s_error_flag THEN vctcxo_tamer_pkt.pps_1s_error
    ELSE IF vctcxo_tamer_pkt.pps_10s_error_flag THEN vctcxo_tamer_pkt.pps_10s_error
    ELSE vctcxo_tamer_pkt.pps_100s_error
UsedLength ==
    IF vctcxo_tamer_pkt.pps_1s_error_flag THEN 1
    ELSE IF vctcxo_tamer_pkt.pps_10s_error_flag THEN 10
    ELSE 100

\* clamp(c - round(e * s) / w, 0, DacMax) over the integers, without any
\* 32-bit limit: a product of magnitude 2^24 or more moves any code past
\* the end of the range, whatever w in {1, 10, 100} is.
UnboundedCorrection(c, e, s, w) ==
    LET p       == FMul(IntToFloat(e), s)
        huge    == \/ p.ex >= 24
                   \/ p.ex >= 0 /\ Abs(p.m) >= Pow2(24 - p.ex)
        rounded == IF p.ex >= 0 THEN p.m * Pow2(p.ex)
                   ELSE IF -p.ex > 24 THEN 0
                   ELSE RoundDiv(p.m, Pow2(-p.ex))
        quot    == IF rounded < 0 THEN -((-rounded) \div w) ELSE rounded \div w
    IN  IF huge THEN (IF p.m > 0 THEN 0 ELSE CONFIG_DAC_MAX)
        ELSE Into(0, c - quot, CONFIG_DAC_MAX)

\* C6: a Fine correction writes and caches clamp(c - round(e * s) / w, 0,
\* DacMax), for every 32-bit e.
C6_FineCorrection ==
    [][(FineStepReady /\ AnyFlag)
          => LET code == UnboundedCorrection(vctcxo_trim_dac_value, UsedError,
                                             trimdac_cal_line.slope, UsedLength)
             IN  /\ vctcxo_trim_dac_value' = code
                 /\ DacRegs(regs') = code
      ]_vars

\* The DAC register writes of one correction that moves the code to v.
CodeWrites(v) ==
    <<<<"VT_DAC_TUNNED_VAL_ADDR0", v % 256>>, <<"VT_DAC_TUNNED_VAL_ADDR1", v \div 256>>>>

\* The step corrects once, with UsedError over UsedLength.
OneCorrection ==
    \E ov \in LongOverflowVals :
        LET code == ClampDac(AdjustNewValue(vctcxo_trim_dac_value, UsedError,
                                            trimdac_cal_line.slope, UsedLength, ov),
                             CONFIG_DAC_MAX)
        IN  /\ vctcxo_trim_dac_value' = code
            /\ DacWrites' = CodeWrites(code)

\* C7 as stated: every Fine step writes one correction to the DAC: the 1 s
\* error over 1 if the 1 s flag is set, otherwise the 10 s error over 10 if
\* the 10 s flag is set, otherwise the 100 s error over 100.
C7_ExactlyOneCorrection ==
    [][FineStepReady => OneCorrection]_vars

\* C7, amended: a Fine step on a sample with a window flag set writes one
\* correction, picked 1 s, then 10 s, then 100 s; a Fine step on a sample
\* with no window flag set writes nothing to the DAC and keeps the code.
C7_FlaggedCorrection ==
    [][/\ (FineStepReady /\ AnyFlag) => OneCorrection
       /\ (FineStepReady /\ ~AnyFlag)
            => /\ DacWrites' = <<>>
               /\ vctcxo_trim_dac_value' = vctcxo_trim_dac_value
               /\ DacRegs(regs') = DacRegs(regs)
      ]_vars

\* A Fine step has run on a sample with the 10 s and 100 s flags set, whose
\* two counts differ, and has moved the code.
C7_Witness ==
    /\ stepped = "FINE_TUNE"
    /\ hw_read[4] = 6
    /\ hw_read[2] # hw_read[3]
    /\ DacWrites # <<>>
    /\ vctcxo_trim_dac_value # trimdac_cal_line.y_intercept

\* C8: after a producer run the mailbox holds the three counts and the three
\* flags of that run's reads and is ready, whatever it held before.
C8_OnlyLastSample ==
    isr_ran
        => vctcxo_tamer_pkt =
               [pps_1s_error        |-> hw_read[1],
                pps_10s_error       |-> hw_read[2],
                pps_100s_error      |-> hw_read[3],
                pps_1s_error_flag   |-> hw_read[4] % 2 = 1,
                pps_10s_error_flag  |-> (hw_read[4] \div 2) % 2 = 1,
                pps_100s_error_flag |-> (hw_read[4] \div 4) % 2 = 1,
                ready               |-> TRUE]

\* The producer has run at least twice with nothing consumed, the last time
\* on a status with no window bit and on non-zero counts.
C8_Witness ==
    /\ iter >= 2
    /\ isr_ran
    /\ vctcxo_tamer_pkt.ready
    /\ hw_read[4] = 0
    /\ hw_read[1] # 0

\* C9: an iteration that saw the enable signal fall ran no state-machine
\* step and wrote nothing to the DAC; it ends in CoarseMin with the mailbox
\* not ready, tune mode Disabled, interrupts off, counters in reset and the
\* state register 0.
C9_DisableEdgeQuiet ==
    (IterationDone /\ DisableSeen)
        => /\ stepped = "none"
           /\ DacWrites = <<>>
           /\ tune_state = "COARSE_TUNE_MIN"
           /\ ~vctcxo_tamer_pkt.ready
           /\ vctcxo_tamer_ctrl_reg \div 64 = VCTCXO_TAMER_DISABLED
           /\ ~BitTest(vctcxo_tamer_ctrl_reg, VT_CTRL_IRQ_EN)
           /\ BitTest(vctcxo_tamer_ctrl_reg, VT_CTRL_RESET)
           /\ regs["VT_CTRL_ADDR"] = vctcxo_tamer_ctrl_reg
           /\ regs["VT_STATE_ADDR"] = 0

\* The enable signal fell in the Fine phase, in an iteration in which the
\* producer had run.
C9_Witness ==
    IterationDone /\ DisableSeen /\ isr_ran /\ tune_state_old = "FINE_TUNE"

\* C10: once an enable edge has been handled the line is back at its
\* initial values.
C10_LineReinitialized ==
    edge = "enable"
        => /\ trimdac_cal_line.point[0].x = 0
           /\ trimdac_cal_line.point[1].x = 0
           /\ trimdac_cal_line.slope = FZero
           /\ trimdac_cal_line.y_intercept = 0

\* The last two register writes of a sequence of at least two.
LastButOne(w) == w[Len(w) - 1]
Last(w) == w[Len(w)]

C12_ReadyMeansIrqOff ==
    vctcxo_tamer_pkt.ready => ~BitTest(vctcxo_tamer_ctrl_reg, VT_CTRL_IRQ_EN)

\* The sample fields the producer has stored so far hold what it read.
CountsStored ==
    /\ vctcxo_tamer_pkt.pps_1s_error = hw_read[1]
    /\ vctcxo_tamer_pkt.pps_10s_error = hw_read[2]
    /\ vctcxo_tamer_pkt.pps_100s_error = hw_read[3]
FlagsStored ==
    /\ vctcxo_tamer_pkt.pps_1s_error_flag = (hw_read[4] % 2 = 1)
    /\ vctcxo_tamer_pkt.pps_10s_error_flag = ((hw_read[4] \div 2) % 2 = 1)
    /\ vctcxo_tamer_pkt.pps_100s_error_flag = ((hw_read[4] \div 4) % 2 = 1)

\* By the time the counters are read the producer has written the control
\* register twice: interrupt enable cleared, then counter reset asserted.
SignalingOffCountersHeld ==
    /\ Len(writes) >= 2
    /\ writes[1][1] = "VT_CTRL_ADDR"
    /\ ~BitTest(writes[1][2], VT_CTRL_IRQ_EN)
    /\ writes[2] = <<"VT_CTRL_ADDR", BitSet(writes[1][2], VT_CTRL_RESET)>>
    /\ ~BitTest(vctcxo_tamer_ctrl_reg, VT_CTRL_IRQ_EN)
    /\ BitTest(vctcxo_tamer_ctrl_reg, VT_CTRL_RESET)

\* C13: the producer clears the interrupt enable, asserts the counter reset,
\* reads the counts, reads the status and derives the flags, writes the
\* interrupt-clear pulse and sets ready last: ready turns true only in its
\* last statement, with the six fields stored, interrupt enable 0 and
\* counter reset 1.
C13_ProducerOrder ==
    /\ [](pc \in {"isr_counts", "isr_status", "isr_clear"}
            => SignalingOffCountersHeld /\ Len(writes) = 2)
    /\ [](pc \in {"isr_status", "isr_clear", "isr_publish"} => CountsStored)
    /\ [](pc \in {"isr_clear", "isr_publish"} => FlagsStored)
    /\ [](pc = "isr_publish"
            => /\ SignalingOffCountersHeld
               /\ Len(writes) = 3
               /\ writes[3] = <<"VT_CTRL_ADDR",
                                BitSet(vctcxo_tamer_ctrl_reg, VT_CTRL_IRQ_CLR)>>)
    /\ [][(~vctcxo_tamer_pkt.ready /\ vctcxo_tamer_pkt'.ready)
            => /\ pc = "isr_publish"
               /\ CountsStored' /\ FlagsStored'
               /\ SignalingOffCountersHeld'
         ]_vars

\* A later call of the producer has run to its end and published a sample
\* with a window flag.
C13_Witness ==
    /\ pc = "isr_idle"
    /\ iter >= 2
    /\ isr_ran
    /\ vctcxo_tamer_pkt.ready
    /\ Len(writes) = 3
    /\ ~BitTest(vctcxo_tamer_ctrl_reg, VT_CTRL_IRQ_EN)
    /\ BitTest(vctcxo_tamer_ctrl_reg, VT_CTRL_RESET)
    /\ hw_read[4] # 0

\* The sample in the mailbox was produced in this iteration, and the DAC has
\* held the code v since before it was produced.
FreshSampleAt(v) ==
    /\ isr_ran
    /\ DacWrites = <<>>
    /\ vctcxo_tamer_pkt.pps_1s_error = hw_read[1]
    /\ vctcxo_trim_dac_value = v
    /\ DacRegs(regs) = v

\* C14: point0.y is the minimum code and point1.y the maximum code in every
\* state; point0.x is stored only by the CoarseMax step and point1.x only by
\* the CoarseDone step, each time with the 1 s error of a sample produced
\* while the DAC held the minimum, respectively the maximum, code.
C14_PointsSampledAtEnds ==
    /\ [](/\ trimdac_cal_line.point[0].y = trimdac_min
          /\ trimdac_cal_line.point[1].y = CONFIG_DAC_MAX)
    /\ [][/\ (pc = "fsm" /\ vctcxo_tamer_pkt.ready /\ tune_state = "COARSE_TUNE_MAX")
               => /\ FreshSampleAt(trimdac_min)
                  /\ trimdac_cal_line'.point[0].x = hw_read[1]
                  /\ trimdac_cal_line'.point[1].x = trimdac_cal_line.point[1].x
          /\ (pc = "fsm" /\ vctcxo_tamer_pkt.ready /\ tune_state = "COARSE_TUNE_DONE")
               => /\ FreshSampleAt(CONFIG_DAC_MAX)
                  /\ trimdac_cal_line'.point[1].x = hw_read[1]
                  /\ trimdac_cal_line'.point[0].x = trimdac_cal_line.point[0].x
          /\ ~(/\ pc = "fsm"
               /\ vctcxo_tamer_pkt.ready
               /\ tune_state \in {"COARSE_TUNE_MAX", "COARSE_TUNE_DONE"})
               => trimdac_cal_line'.point = trimdac_cal_line.point
         ]_vars

\* A calibration run with the enable signal high has stored both points.
C14_Witness ==
    /\ IterationDone
    /\ stepped = "COARSE_TUNE_DONE"
    /\ vctcxo_tamer_en = 1
    /\ trimdac_cal_line.point[0].x # 0
    /\ trimdac_cal_line.point[1].x # trimdac_cal_line.point[0].x

\* An iteration without an edge steps the phase once when the producer ran
\* in it and leaves the phase alone when it did not.
PhaseAfter(s, sampled) ==
    IF ~sampled THEN s
    ELSE CASE s = "COARSE_TUNE_MIN"  -> "COARSE_TUNE_MAX"
           [] s = "COARSE_TUNE_MAX"  -> "COARSE_TUNE_DONE"
           [] OTHER                  -> "FINE_TUNE"

\* C15: if from some iteration on the enable signal reads 1 and the
\* producer keeps running, the phase ends up Fine for good.  The iteration
\* of the enable edge ends in CoarseMax and every later iteration steps the
\* phase once per sample, so the second sample after the edge brings Fine.
\* The phase leaves Fine only by an edge of the enable signal.  An iteration
\* without a sample and without an edge keeps the phase, and if from some
\* point on the enable signal is steady and the producer never runs again,
\* the phase is constant for ever.
C15_ReachesFineAndStays ==
    /\ (<>[](vctcxo_tamer_en = 1) /\ []<>isr_ran) => <>[](tune_state = "FINE_TUNE")
    /\ [](IterationDone /\ edge = "enable" => tune_state = "COARSE_TUNE_MAX")
    /\ [](IterationDone /\ edge = "none"
             => tune_state = PhaseAfter(tune_state_old, isr_ran))
    /\ [][(tune_state = "FINE_TUNE" /\ tune_state' # "FINE_TUNE")
             => (pc = "edge" /\ vctcxo_tamer_en_old # vctcxo_tamer_en)]_vars
    /\ \A en \in {0, 1} :
          <>[](vctcxo_tamer_en = en /\ ~isr_ran)
              => \E s \in States : <>[](tune_state = s)

\* After an enable edge the CoarseDone step has consumed a sample and the
\* phase is Fine, with the enable signal still high.
C15_Witness ==
    /\ IterationDone
    /\ vctcxo_tamer_en = 1
    /\ stepped = "COARSE_TUNE_DONE"
    /\ tune_state = "FINE_TUNE"
    /\ isr_ran

\* What the current call has written so far, and what the step being taken
\* writes.
IsCtrlWrite(w) == w[1] = "VT_CTRL_ADDR"
StepWrites ==
    IF pc \in DrvCallSites THEN writes'
    ELSE SubSeq(writes', Len(writes) + 1, Len(writes'))

\* Every byte a step writes goes to the control register and is the cache
\* as the step leaves it, with the clear bit added when the step is
\* vctcxo_tamer_clear_isr.
WritesFollowCache ==
    [][\A i \in 1 .. Len(StepWrites) :
           StepWrites[i] = <<"VT_CTRL_ADDR",
                             IF pc' = "ret_clear_isr"
                             THEN BitSet(vctcxo_tamer_ctrl_reg', VT_CTRL_IRQ_CLR)
                             ELSE vctcxo_tamer_ctrl_reg'>>]_vars

CacheNeverHoldsClear == [](~BitTest(vctcxo_tamer_ctrl_reg, VT_CTRL_IRQ_CLR))

\* The three one-bit calls: the cache differs from its value at the call's
\* entry in the call's own bit at most, and the call writes once.
BitCallsOwnBit ==
    [](/\ pc = "ret_reset_counters"
           => /\ BitClear(vctcxo_tamer_ctrl_reg, VT_CTRL_RESET)
                    = BitClear(call.ctrl_reg_old, VT_CTRL_RESET)
              /\ Len(writes) = 1
       /\ pc = "ret_enable_isr"
           => /\ BitClear(vctcxo_tamer_ctrl_reg, VT_CTRL_IRQ_EN)
                    = BitClear(call.ctrl_reg_old, VT_CTRL_IRQ_EN)
              /\ Len(writes) = 1
       /\ pc = "ret_clear_isr"
           => /\ vctcxo_tamer_ctrl_reg = call.ctrl_reg_old
              /\ Len(writes) = 1)

\* The cache without its reset, interrupt-enable and tune-mode bits.
OtherBits(c) == BitClear(BitClear(c % 64, VT_CTRL_RESET), VT_CTRL_IRQ_EN)

\* C16 as stated: every written byte is the cache (plus the clear bit for
\* vctcxo_tamer_clear_isr), the cache never holds the clear bit, and every
\* call, vctcxo_tamer_set_tune_mode included, changes only its own bit or
\* field of the cache.
C16_OwnFieldOnly ==
    /\ WritesFollowCache
    /\ CacheNeverHoldsClear
    /\ BitCallsOwnBit
    /\ [](pc = "ret_set_tune_mode"
             => vctcxo_tamer_ctrl_reg % 64 = call.ctrl_reg_old % 64)

\* C16 amended: the same, except that vctcxo_tamer_set_tune_mode with a
\* valid mode also leaves the interrupt-enable bit set exactly for a mode
\* other than DISABLED and the reset bit set exactly for DISABLED, whatever
\* they were, and with an erroneous mode changes and writes nothing; its
\* step-by-step run ends as the call made in one piece does.
C16_CacheDiscipline ==
    /\ WritesFollowCache
    /\ CacheNeverHoldsClear
    /\ BitCallsOwnBit
    /\ [](pc = "ret_set_tune_mode"
             => IF call.mode \in {VCTCXO_TAMER_DISABLED, VCTCXO_TAMER_1_PPS,
                                  VCTCXO_TAMER_10_MHZ}
                THEN /\ vctcxo_tamer_ctrl_reg \div 64 = call.mode
                     /\ OtherBits(vctcxo_tamer_ctrl_reg) = OtherBits(call.ctrl_reg_old)
                     /\ BitTest(vctcxo_tamer_ctrl_reg, VT_CTRL_IRQ_EN) = (call.mode # 0)
                     /\ BitTest(vctcxo_tamer_ctrl_reg, VT_CTRL_RESET) = (call.mode = 0)
                     /\ LET d == vctcxo_tamer_set_tune_mode(
                                     [Drv EXCEPT !.ctrl_reg = call.ctrl_reg_old,
                                                 !.writes = <<>>], call.mode)
                        IN  /\ d.ctrl_reg = vctcxo_tamer_ctrl_reg
                            /\ d.writes = writes
                ELSE /\ vctcxo_tamer_ctrl_reg = call.ctrl_reg_old
                     /\ writes = <<>>)

\* vctcxo_tamer_set_tune_mode(DISABLED) has returned after a call made with
\* the interrupt enabled and the counters released: both bits changed.
C16_Witness ==
    /\ pc = "ret_set_tune_mode"
    /\ call.mode = VCTCXO_TAMER_DISABLED
    /\ BitTest(call.ctrl_reg_old, VT_CTRL_IRQ_EN)
    /\ ~BitTest(call.ctrl_reg_old, VT_CTRL_RESET)
    /\ ~BitTest(vctcxo_tamer_ctrl_reg, VT_CTRL_IRQ_EN)
    /\ BitTest(vctcxo_tamer_ctrl_reg, VT_CTRL_RESET)

\* C17: the mailbox is not ready when an iteration starts, nor when the
\* status register is polled, so the producer never finds a sample still
\* marked ready; a sample published in an iteration has by the end of it
\* been consumed by a state-machine step or discarded by a disable edge.
C17_ReadyFalseAtIterationStart ==
    /\ pc \in {"read_enable", "poll"} => ~vctcxo_tamer_pkt.ready
    /\ (IterationDone /\ isr_ran) => (stepped # "none" \/ edge = "disable")

\* An iteration has published a sample and discarded it on a disable edge.
C17_Witness ==
    /\ IterationDone
    /\ isr_ran
    /\ edge = "disable"
    /\ stepped = "none"
    /\ ~vctcxo_tamer_pkt.ready

\* C18: an iteration that read the enable signal 0, after an iteration that
\* read it 0 as well, runs no state-machine step: it ends with the phase
\* CoarseMin, no DAC register written and the interrupt-enable bit of the
\* cache 0, and none of its statements changes the trim DAC cache.
C18_DisabledIterationIdle ==
    /\ [](IterationDone /\ vctcxo_tamer_en = 0 /\ vctcxo_tamer_en_old = 0
             => /\ stepped = "none"
                /\ tune_state = "COARSE_TUNE_MIN"
                /\ DacWrites = <<>>
                /\ ~BitTest(vctcxo_tamer_ctrl_reg, VT_CTRL_IRQ_EN))
    /\ [][(pc # "read_enable" /\ vctcxo_tamer_en = 0 /\ vctcxo_tamer_en_old = 0)
             => vctcxo_trim_dac_value' = vctcxo_trim_dac_value]_vars

\* The values written to the state register in the current iteration.
IsStateWrite(w) == w[1] = "VT_STATE_ADDR"
StateWrites == SelectSeq(writes, IsStateWrite)
StateWritten(v) == \E i \in 1 .. Len(StateWrites) : StateWrites[i][2] = v

\* C19: between iterations the state register holds 1 when the phase is
\* Fine and 0 otherwise; an iteration writes it 1 exactly when its step was
\* CoarseDone and writes it 0 exactly when it handled an edge.
C19_StateRegisterTracksFine ==
    pc = "read_enable"
        => /\ regs["VT_STATE_ADDR"] = IF tune_state = "FINE_TUNE" THEN 1 ELSE 0
           /\ StateWritten(1) <=> stepped = "COARSE_TUNE_DONE"
           /\ StateWritten(0) <=> edge # "none"
           /\ \A i \in 1 .. Len(StateWrites) : StateWrites[i][2] \in {0, 1}

\* An iteration has finished calibration and left the register at 1.
C19_Witness ==
    /\ IterationDone
    /\ stepped = "COARSE_TUNE_DONE"
    /\ tune_state = "FINE_TUNE"
    /\ regs["VT_STATE_ADDR"] = 1

\* C20: a degenerate CoarseDone step keeps the slope, and while the phase
\* is Fine after calibration runs that were all degenerate (the slope is
\* still the 0 of startup), the trim DAC cache and registers hold the
\* default code, whatever samples the Fine steps have consumed.
C20_ZeroSlopeHoldsDefault ==
    /\ [][(/\ pc = "fsm"
            /\ vctcxo_tamer_pkt.ready
            /\ tune_state = "COARSE_TUNE_DONE"
            /\ vctcxo_tamer_pkt.pps_1s_error = trimdac_cal_line.point[0].x)
              => trimdac_cal_line'.slope = trimdac_cal_line.slope]_vars
    /\ [](/\ tune_state = "FINE_TUNE"
           /\ trimdac_cal_line.slope = FZero
           /\ Degenerate
             => /\ vctcxo_trim_dac_value = VCTCXO_DEFAULT_DAC_VALUE
                /\ DacRegs(regs) = VCTCXO_DEFAULT_DAC_VALUE)

====
